---- MODULE Spec2Model ----
(***************************************************************************)
(* Model of backend/app.py: the telemetry queue (telemetry_data), the      *)
(* request handlers that feed and drain it, the demo simulator threads and *)
(* the pure decision helpers (heuristic_status, detect_spike,              *)
(* detect_ddos_like).                                                      *)
(*                                                                         *)
(* Numbers.  Python floats are modelled as integers counted in units of    *)
(* 1/10000 (Unit == 10000 stands for 1.0), so round(x, 3) is a real        *)
(* rounding to a multiple of 10 and is not the identity.                   *)
(*                                                                         *)
(* Threads.  The server runs thread-per-request (threaded=True).  list     *)
(* append, list.pop(0) and len() are each atomic under the interpreter     *)
(* lock, a thread switch can happen between any two of them.  Every        *)
(* handler is therefore cut exactly at its accesses to telemetry_data; the *)
(* computation on locals between two accesses belongs to the later step.   *)
(***************************************************************************)
EXTENDS Integers, Sequences, FiniteSets, TLC

\* ---------------------------------------------------------------- bounds
NumConsumers == 2     \* concurrent GET /telemetry_local requests
NumPosters == 1       \* concurrent POST /telemetry requests
MaxPosts == 2         \* POST /telemetry requests issued in one run
MaxTriggers == 1      \* demo triggers of each kind issued in one run
MaxOverlap == 2       \* turns a running simulator has left at a further trigger

\* ------------------------------------------------------------- constants
Unit == 10000
DdosPoints == 10
RampPoints == 12
PingCount == 5
DrawDen == 100

Consumers == 1..NumConsumers
Posters == 1..NumPosters

NoValue == -1         \* Python None for a measurement

\* ========================================================== pure helpers

\* round(x, 3): nearest multiple of 0.001, ties to the even one
Round3(x) ==
    LET q == x \div 10
        r == x % 10
    IN  IF r < 5 THEN q * 10
        ELSE IF r > 5 THEN (q + 1) * 10
        ELSE IF q % 2 = 0 THEN q * 10 ELSE (q + 1) * 10

Max(a, b) == IF a >= b THEN a ELSE b
Min(a, b) == IF a <= b THEN a ELSE b

\* random.uniform(a, b) for the draw d/DrawDen of random.random()
Uniform(a, b, d) == a + ((b - a) * d) \div DrawDen

\* random.randint(a, b) for the same kind of draw
RandInt(a, b, d) == a + ((b - a) * d) \div DrawDen

\* detect_spike with the thresholds included
detect_spike_inclusive(latency, jitter) ==
    (latency # NoValue /\ latency >= 200 * Unit)
    \/ (jitter # NoValue /\ jitter >= 20 * Unit)

detect_spike(latency, jitter) ==
    (latency # NoValue /\ latency > 200 * Unit)
    \/ (jitter # NoValue /\ jitter > 20 * Unit)

\* heuristic_status with the Critical thresholds included
heuristic_status_inclusive(lat0, jit, pkt_loss, bw) ==
    LET lat == IF lat0 = NoValue THEN 999 * Unit ELSE lat0
    IN  IF pkt_loss >= 10 * Unit \/ lat >= 800 * Unit THEN "Critical"
        ELSE IF pkt_loss > 3 * Unit \/ lat > 250 * Unit
                \/ jit > 40 * Unit \/ bw < 3 * Unit THEN "Network Congestion"
        ELSE IF lat > 100 * Unit \/ jit > 15 * Unit \/ bw < 8 * Unit THEN "Degraded"
        ELSE "Normal"

heuristic_status(lat0, jit, pkt_loss, bw) ==
    LET lat == IF lat0 = NoValue THEN 999 * Unit ELSE lat0
    IN  IF pkt_loss > 10 * Unit \/ lat > 800 * Unit THEN "Critical"
        ELSE IF pkt_loss > 3 * Unit \/ lat > 250 * Unit
                \/ jit > 40 * Unit \/ bw < 3 * Unit THEN "Network Congestion"
        ELSE IF lat > 100 * Unit \/ jit > 15 * Unit \/ bw < 8 * Unit THEN "Degraded"
        ELSE "Normal"

\* dict.get(key, 0) on a dict given as a record
Get(d, key, default) == IF key \in DOMAIN d THEN d[key] ELSE default

detect_ddos_like(telemetry) ==
    IF Get(telemetry, "packet_loss", 0) > 5 * Unit
       /\ Get(telemetry, "jitter", 0) > 20 * Unit THEN TRUE
    ELSE IF Get(telemetry, "bandwidth", 0) < 1 * Unit
            /\ Get(telemetry, "packet_loss", 0) > 2 * Unit THEN TRUE
    ELSE FALSE

\* integer square root by bisection: the r with r*r <= n < (r+1)*(r+1)
RECURSIVE ISqrtIn(_, _, _)
ISqrtIn(n, lo, hi) ==
    IF lo >= hi THEN lo
    ELSE LET mid == (lo + hi + 1) \div 2
         IN  IF mid * mid <= n THEN ISqrtIn(n, mid, hi) ELSE ISqrtIn(n, lo, mid - 1)

ISqrt(n) == ISqrtIn(n, 0, 40000)

RECURSIVE SumSeq(_)
SumSeq(s) == IF s = <<>> THEN 0 ELSE Head(s) + SumSeq(Tail(s))

\* measure_ping_stats_simple(count=5): times holds the round trips of the
\* probes that answered (in Units of a millisecond), the others were lost.
\* Returns avg, jitter (population standard deviation, computed to 0.01 ms)
\* and packet_loss.
measure_ping_stats_simple(ping_lib, times) ==
    IF ~ping_lib THEN [avg |-> NoValue, jitter |-> NoValue, packet_loss |-> 100 * Unit]
    ELSE LET lost == PingCount - Len(times)
             packet_loss == (lost * 100 * Unit) \div PingCount
         IN  IF times = <<>>
             THEN [avg |-> NoValue, jitter |-> NoValue, packet_loss |-> packet_loss]
             ELSE LET avg == SumSeq(times) \div Len(times)
                      sq == [i \in 1..Len(times) |->
                                (((times[i] - avg) \div 100) * ((times[i] - avg) \div 100))
                                    \div Len(times)]
                  IN  [avg |-> avg, jitter |-> ISqrt(SumSeq(sq)) * 100,
                       packet_loss |-> packet_loss]

\* measure_bandwidth_simple(interval=1.0): bytes is the growth of the
\* sent+received byte counters over the one second window
measure_bandwidth_simple(psutil_lib, bytes) ==
    IF ~psutil_lib THEN 0
    ELSE Max(0, Round3((bytes * 8) \div 100))

\* ================================================================ state
VARIABLES
    telemetry_data,   \* the queue: a list of telemetry points
    ping, psutil,     \* TRUE iff the optional library was imported
    models,           \* TRUE iff the model pickles were loaded
    hashseed,         \* the seed of str hashing this process started with
    pcC,              \* per GET /telemetry_local request: where it stands
    pcP,              \* per POST /telemetry request: where it stands
    posts,            \* POST /telemetry requests started so far
    ddos_threads,     \* per started burst simulator: points appended so far
    ramp_threads,     \* per started ramp simulator: points appended so far
    appended,         \* history: number of appends to telemetry_data so far
    served,           \* history: seq of the points popped, in pop order
    status_trace,     \* history: statuses of the served points, runs collapsed
    lastResp,         \* the latest GET /telemetry_local response
    rtResp,           \* the latest POST /telemetry response
    rtLen,            \* history: per POST /telemetry request, the queue length
                      \* right after its own append (0 when it is not between
                      \* append and answer); kept only in runs started with
                      \* it switched on, NoValue everywhere otherwise
    call,             \* a direct call of a helper: its arguments and result
    apiResp           \* the latest response of one of the stateless routes
                      \* (/telemetry_test, /predict, /suggest_mitigation)

cfg == <<ping, psutil, models, hashseed>>
sims == <<ddos_threads, ramp_threads>>
hist == <<appended, served, status_trace>>
vars == <<telemetry_data, ping, psutil, models, hashseed, pcC, pcP, posts, ddos_threads,
          ramp_threads, appended, served, status_trace, lastResp, rtResp, rtLen,
          call, apiResp>>

NoTelemetry ==
    [latency_measured |-> NoValue, jitter_measured |-> NoValue, packet_loss |-> NoValue,
     bandwidth |-> NoValue, signal_strength |-> NoValue]

NoResp ==
    [req |-> 0, code |-> 0, source |-> "none", seq |-> 0, producer |-> "none",
     collected_telemetry |-> NoTelemetry, predicted_latency |-> NoValue,
     status |-> "none", action_type |-> "none", action_strength |-> NoValue,
     solution |-> "none", alternative_solutions |-> <<>>,
     spike |-> FALSE, ddos_suspected |-> FALSE]

\* an except branch of telemetry_local that answers 200
ErrorRespOk(c) == [NoResp EXCEPT !.req = c, !.code = 200, !.source = "error"]

\* the except branch of telemetry_local: {"error": str(e)}, 500
ErrorResp(c) == [NoResp EXCEPT !.req = c, !.code = 500, !.source = "error"]

NoPost == [req |-> 0, code |-> 0, error |-> FALSE, queued_len |-> 0]

\* action_key and strength are arguments of pick_solution_variant, out2 the
\* result of a second call with the same arguments; ops and ops2 are
\* history, the number of appends at the time of either call
NoCall ==
    [fn |-> "none", lat |-> 0, jit |-> 0, pkt_loss |-> 0, bw |-> 0,
     out |-> "none", flag |-> FALSE,
     action_key |-> "none", strength |-> 0, out2 |-> "none", again |-> FALSE,
     ops |-> 0, ops2 |-> 0]

\* the body of a request to /predict or /suggest_mitigation; has_signal
\* tells whether the key signal_strength is there
NoBody ==
    [kind |-> "none", jitter |-> 0, packet_loss |-> 0, bandwidth |-> 0,
     has_signal |-> FALSE, signal_strength |-> 0, valid |-> FALSE]

\* a response of a stateless route; body is history, the request answered
NoApi ==
    [endpoint |-> "none", body |-> NoBody, code |-> 0, error |-> "none",
     predicted_latency |-> NoValue, status |-> "none", action_type |-> "none",
     action_strength |-> NoValue, solution |-> "none",
     alternative_solutions |-> <<>>, spike |-> FALSE, ddos_suspected |-> FALSE,
     suggestions |-> <<>>]

\* the answer of a trigger route: a message, 200
Confirmation(endpoint) == [NoApi EXCEPT !.endpoint = endpoint, !.code = 200]

\* ==================================================== solution selector
SOLUTION_TEMPLATES ==
    [switch_network |->
        <<"Switch to a stronger network (move closer to AP / use wired).",
          "Switch device to 5GHz Wi-Fi or wired Ethernet.",
          "Disconnect and re-join the network to force a better AP.",
          "Change router channel to avoid interference.",
          "If available, use the higher-throughput SSID.">>,
     enable_qos |->
        <<"Enable QoS and prioritize real-time apps.",
          "Create QoS rule to limit background downloads.",
          "Map real-time traffic to a high-priority queue.">>,
     optimize_bandwidth |->
        <<"Limit background uploads/downloads.",
          "Pause high-bandwidth streams on other devices.",
          "Use bandwidth management tools.">>,
     rate_limit |->
        <<"Enable rate limiting on router and block suspicious IPs.",
          "Apply connection limits to stop flood-style traffic.",
          "Contact ISP for mitigation if attack is sustained.">>,
     monitor |->
        <<"No immediate action - continue monitoring.",
          "Gather longer logs before acting.">>,
     default |->
        <<"Investigate further: collect more telemetry and restart equipment if needed.">>]

\* SOLUTION_TEMPLATES.get(action_key, SOLUTION_TEMPLATES["default"])
Templates(action_key) ==
    IF action_key \in DOMAIN SOLUTION_TEMPLATES THEN SOLUTION_TEMPLATES[action_key]
    ELSE SOLUTION_TEMPLATES["default"]

\* s[:k]
Take(s, k) == SubSeq(s, 1, Min(k, Len(s)))

Abs(x) == IF x < 0 THEN 0 - x ELSE x

\* hash(str(x)) in a process started with the given seed: some fixed
\* function of the seed and the text, of either sign.  The interpreter's
\* function is not reproduced, only that it depends on these two alone.
StrHash(seed, x) == (((x \div 10) * 7919 + seed * 104729) % 2003) - 1001

\* a selector that takes the next variant at every point appended
pick_solution_rotating(action_key, strength, telemetry) ==
    LET pool == Templates(action_key)
    IN  pool[(appended % Len(pool)) + 1]

\* the score of pick_solution_variant: strength plus
\* telemetry.get("jitter", 0) / 100.0 plus telemetry.get("packet_loss", 0) / 10.0
score(strength, telemetry) ==
    strength + Get(telemetry, "jitter", 0) \div 100
    + Get(telemetry, "packet_loss", 0) \div 10

pick_solution_variant(action_key, strength, telemetry) ==
    LET pool == Templates(action_key)
    IN  pool[(Abs(StrHash(hashseed, Round3(score(strength, telemetry))))
              % Len(pool)) + 1]

\* an append that writes over the newest item
list_append_overwrite(q, r) ==
    IF q = <<>> THEN <<r>> ELSE [q EXCEPT ![Len(q)] = r]

\* telemetry_data.append(r)
list_append(q, r) == Append(q, r)

\* telemetry_data.pop(): the newest item instead of the oldest
PopLast(q) == [item |-> q[Len(q)], rest |-> SubSeq(q, 1, Len(q) - 1)]

\* telemetry_data[0]: the oldest item read but left in the list
PeekFirst(q) == [item |-> Head(q), rest |-> q]

\* telemetry_data.pop(0): the item returned and the list left
Pop0(q) == [item |-> Head(q), rest |-> Tail(q)]

\* a point as the three producers build it; producer and seq are history
Point(lat, jit, pl, bw, sig, who, n) ==
    [latency |-> lat, jitter |-> jit, packet_loss |-> pl, bandwidth |-> bw,
     signal |-> sig, producer |-> who, seq |-> n]

\* telemetry_measured of a queued branch whose latency default is 0.0
QueuedMeasuredZero(sim) ==
    [latency_measured |-> Round3(Get(sim, "latency", 0)),
     jitter_measured  |-> Round3(Get(sim, "jitter", 0)),
     packet_loss      |-> Round3(Get(sim, "packet_loss", 0)),
     bandwidth        |-> Round3(Get(sim, "bandwidth", 0)),
     signal_strength  |-> Get(sim, "signal", Get(sim, "signal_strength", 0))]

\* telemetry_measured of the queued branch
QueuedMeasured(sim) ==
    [latency_measured |-> Round3(Get(sim, "latency", 999 * Unit)),
     jitter_measured  |-> Round3(Get(sim, "jitter", 0)),
     packet_loss      |-> Round3(Get(sim, "packet_loss", 0)),
     bandwidth        |-> Round3(Get(sim, "bandwidth", 0)),
     signal_strength  |-> Get(sim, "signal", Get(sim, "signal_strength", 0))]

\* telemetry_measured of a live branch that lacks the 999.0 sentinels:
\* jitter_ms or 0.0 of a jitter that is None
LiveMeasuredNoSentinel(p, bandwidth_mbps, signal_strength) ==
    LET avg_latency == IF p.avg = NoValue THEN 999 * Unit ELSE p.avg
        jitter_ms   == IF p.avg = NoValue THEN 0 ELSE p.jitter
    IN  [latency_measured |-> Round3(avg_latency),
         jitter_measured  |-> Round3(jitter_ms),
         packet_loss      |-> Round3(p.packet_loss),
         bandwidth        |-> Round3(bandwidth_mbps),
         signal_strength  |-> signal_strength]

\* telemetry_measured of the live branch
LiveMeasured(p, bandwidth_mbps, signal_strength) ==
    LET avg_latency == IF p.avg = NoValue THEN 999 * Unit ELSE p.avg
        jitter_ms   == IF p.avg = NoValue THEN 999 * Unit ELSE p.jitter
    IN  [latency_measured |-> Round3(avg_latency),
         jitter_measured  |-> Round3(jitter_ms),
         packet_loss      |-> Round3(p.packet_loss),
         bandwidth        |-> Round3(bandwidth_mbps),
         signal_strength  |-> signal_strength]

\* a heuristic branch that falls back to the action "monitor" with no
\* strength
HeuristicResponseMonitor(c, source, sim, tm) ==
    LET pred_latency == tm.latency_measured
    IN  [req |-> c, code |-> 200, source |-> source, seq |-> sim.seq,
         producer |-> sim.producer,
         collected_telemetry |-> tm,
         predicted_latency |-> pred_latency,
         status |-> heuristic_status(pred_latency, tm.jitter_measured,
                                     tm.packet_loss, tm.bandwidth),
         action_type |-> "monitor",
         action_strength |-> 0,
         solution |-> pick_solution_variant("monitor", 0, tm),
         alternative_solutions |-> Take(Templates("monitor"), 4),
         spike |-> detect_spike(pred_latency, tm.jitter_measured),
         ddos_suspected |-> detect_ddos_like(tm)]

\* the heuristic branch (models is None) shared by the queued and the live
\* path, up to the jsonify(...), 200
HeuristicResponse(c, source, sim, tm) ==
    LET pred_latency == tm.latency_measured
    IN  [req |-> c, code |-> 200, source |-> source, seq |-> sim.seq,
         producer |-> sim.producer,
         collected_telemetry |-> tm,
         predicted_latency |-> pred_latency,
         status |-> heuristic_status(pred_latency, tm.jitter_measured,
                                     tm.packet_loss, tm.bandwidth),
         action_type |-> "default",
         action_strength |-> Unit \div 2,
         solution |-> pick_solution_variant("default", Unit \div 2, tm),
         alternative_solutions |-> Take(Templates("default"), 4),
         spike |-> detect_spike(pred_latency, tm.jitter_measured),
         ddos_suspected |-> detect_ddos_like(tm)]

\* the model branch (models is not None) shared by the queued and the live
\* path, pred being what the four predictors and the two label encoders
\* return for the measured jitter, packet_loss, bandwidth, signal_strength
ModelResponse(c, source, sim, tm, pred) ==
    [req |-> c, code |-> 200, source |-> source, seq |-> sim.seq,
     producer |-> sim.producer,
     collected_telemetry |-> tm,
     predicted_latency |-> pred.latency,
     status |-> pred.status,
     action_type |-> pred.action,
     action_strength |-> pred.strength,
     solution |-> pick_solution_variant(pred.action, pred.strength, tm),
     alternative_solutions |-> Take(Templates(pred.action), 4),
     spike |-> detect_spike(pred.latency, tm.jitter_measured),
     ddos_suspected |-> detect_ddos_like(tm)]

\* the decision code after telemetry_measured is built: the model branch
\* when the pickles were loaded, the heuristic branch otherwise; a predictor
\* or an encoder that raises (pred.ok = FALSE) ends in the except branch
decide(c, source, sim, tm, pred) ==
    IF ~models THEN HeuristicResponse(c, source, sim, tm)
    ELSE IF pred.ok THEN ModelResponse(c, source, sim, tm, pred)
    ELSE ErrorResp(c)

\* simulate_ddos_points drawing its latency from [60, 1200]
DdosPointWide(d, n) ==
    Point(Uniform(60 * Unit, 1200 * Unit, d),
          Uniform(200 * Unit, 600 * Unit, d),
          Uniform(10 * Unit, 30 * Unit, d),
          Uniform(Unit \div 20, Unit, d),
          RandInt(30 * Unit, 80 * Unit, d),
          "ddos", n)

\* the point simulate_ddos_points appends, for the draw d of the random calls
DdosPoint(d, n) ==
    Point(Uniform(600 * Unit, 1200 * Unit, d),
          Uniform(200 * Unit, 600 * Unit, d),
          Uniform(10 * Unit, 30 * Unit, d),
          Uniform(Unit \div 20, Unit, d),
          RandInt(30 * Unit, 80 * Unit, d),
          "ddos", n)

\* simulate_ramp_points with the bandwidth falling by 1.2 a step
RampPointSteep(i, d, n) ==
    Point(100 * Unit + i * 50 * Unit,
          20 * Unit + i * 15 * Unit,
          Min(i * 2 * Unit, 30 * Unit),
          10 * Unit - i * ((12 * Unit) \div 10),
          RandInt(30 * Unit, 80 * Unit, d),
          "ramp", n)

\* the point simulate_ramp_points appends at step i
RampPoint(i, d, n) ==
    Point(100 * Unit + i * 50 * Unit,
          20 * Unit + i * 15 * Unit,
          Min(i * 2 * Unit, 30 * Unit),
          Max(10 * Unit - i * ((8 * Unit) \div 10), Unit \div 10),
          RandInt(30 * Unit, 80 * Unit, d),
          "ramp", n)

\* status_trace after one more served status
Trace(tr, st) == IF tr # <<>> /\ tr[Len(tr)] = st THEN tr ELSE Append(tr, st)

\* =============================================================== inputs
\* draws of random.random() explored, in DrawDen-ths
Draws == {0, 100}

\* request bodies of POST /telemetry explored: JSON objects; valid = FALSE
\* stands for an object one of whose fields float() rejects
Rtts == {-20 * Unit, 200 * Unit + 4}
PJitters == {20 * Unit, 25 * Unit}
PLosses == {6 * Unit}
Payloads ==
    [kind : {"object"}, rtt : Rtts, jitter : PJitters, packet_loss : PLosses,
     valid : {TRUE}]
    \cup {[kind |-> "object", rtt |-> 0, jitter |-> 0, packet_loss |-> 0,
           valid |-> FALSE]}

\* the same and the bodies that are no JSON object: kind "falsy" is a JSON
\* value Python takes for false (null, [], 0, "", false), kind "nonobject"
\* any other JSON value (a non-empty array, a number, a string), kind
\* "notjson" bytes that are no JSON at all
\* and with them an object whose packet_loss is a number above 100
OverLoss == 150 * Unit
Bodies ==
    Payloads
    \cup {[kind |-> k, rtt |-> 0, jitter |-> 0, packet_loss |-> 0, valid |-> FALSE]
             : k \in {"falsy", "nonobject", "notjson"}}
    \cup {[kind |-> "object", rtt |-> 50 * Unit, jitter |-> 5 * Unit,
           packet_loss |-> OverLoss, valid |-> TRUE]}

\* outcomes of the five probes explored: the round trips of the probes that
\* answered (none, all alike, some lost, a slow one among fast ones)
PingFast == 20 * Unit
PingSlow == 260 * Unit
ProbeOutcomes ==
    { <<>>,
      <<PingFast, PingFast, PingFast, PingFast, PingFast>>,
      <<PingFast, PingFast, PingSlow>>,
      <<PingSlow, PingSlow, PingSlow, PingSlow>> }

\* what the loaded predictors may return: labels of the training set, or
\* an exception
Predictions ==
    { [ok |-> TRUE, latency |-> 48 * Unit, status |-> "Normal",
       action |-> "monitor", strength |-> 0],
      [ok |-> TRUE, latency |-> 900 * Unit, status |-> "DDoS Attack Detected",
       action |-> "rate_limit", strength |-> 9000],
      [ok |-> FALSE, latency |-> 0, status |-> "none", action |-> "none",
       strength |-> 0] }

\* no predictor is asked when no model was loaded
NoPrediction ==
    [ok |-> FALSE, latency |-> 0, status |-> "none", action |-> "none",
     strength |-> 0]

\* the outcomes of the predictors a request may meet
PredOutcomes == IF models THEN Predictions ELSE {NoPrediction}

\* hash seeds explored
HashSeeds == {0, 1}

\* growth of the byte counters within the window, readings of the signal probe
ByteDeltas == {-12500, 312500}
SignalReadings == {0, 55 * Unit}

\* ================================================================= Init
\* the server started without the model pickles; in this mode the selector
\* only ever meets the one-entry default pool, so one hash seed stands for
\* all (InitSel starts with either)
Init ==
    /\ telemetry_data = <<>>
    /\ ping \in BOOLEAN
    /\ psutil \in BOOLEAN
    /\ models = FALSE
    /\ hashseed = 0
    /\ pcC = [c \in Consumers |-> "idle"]
    /\ pcP = [p \in Posters |-> "idle"]
    /\ posts = 0
    /\ ddos_threads = <<>>
    /\ ramp_threads = <<>>
    /\ appended = 0
    /\ served = <<>>
    /\ status_trace = <<>>
    /\ lastResp = NoResp
    /\ rtResp = NoPost
    /\ rtLen = [p \in Posters |-> NoValue]
    /\ call = NoCall
    /\ apiResp = NoApi

\* a host without the optional probing libraries
InitBare == Init /\ ~ping /\ ~psutil

\* a host without the optional probing libraries, rtLen switched on
InitPost ==
    /\ telemetry_data = <<>>
    /\ ping = FALSE /\ psutil = FALSE /\ models = FALSE
    /\ hashseed = 0
    /\ pcC = [c \in Consumers |-> "idle"]
    /\ pcP = [p \in Posters |-> "idle"]
    /\ posts = 0
    /\ ddos_threads = <<>> /\ ramp_threads = <<>>
    /\ appended = 0 /\ served = <<>> /\ status_trace = <<>>
    /\ lastResp = NoResp /\ rtResp = NoPost
    /\ rtLen = [p \in Posters |-> 0]
    /\ call = NoCall
    /\ apiResp = NoApi

\* a host without the optional probing libraries whose model pickles were
\* loaded, with the status and action encoders train.py writes
InitModel ==
    /\ telemetry_data = <<>>
    /\ ping = FALSE /\ psutil = FALSE /\ models = TRUE
    /\ hashseed = 0
    /\ pcC = [c \in Consumers |-> "idle"]
    /\ pcP = [p \in Posters |-> "idle"]
    /\ posts = 0
    /\ ddos_threads = <<>> /\ ramp_threads = <<>>
    /\ appended = 0 /\ served = <<>> /\ status_trace = <<>>
    /\ lastResp = NoResp /\ rtResp = NoPost
    /\ rtLen = [p \in Posters |-> NoValue]
    /\ call = NoCall
    /\ apiResp = NoApi

\* ====================================================== POST /telemetry
\* data = request.get_json(force=True) or {} and the five float(...): TRUE
\* iff they go through.  A falsy body is replaced by {}, of any other body
\* that is no object data.get fails, and get_json itself raises on bytes
\* that are no JSON.
Coercible(data) ==
    data.kind = "falsy" \/ (data.kind = "object" /\ data.valid)

\* data.get(key, 0.0) after the coercion
Field(data, key) == IF data.kind = "object" THEN data[key] ELSE 0

\* telemetry_point without the max(., 0.0)
TelemetryPointRaw(data, n) ==
    Point(Field(data, "rtt"), Field(data, "jitter"), Field(data, "packet_loss"),
          10 * Unit, 70 * Unit, "post", n)

\* telemetry_point
TelemetryPoint(data, n) ==
    Point(Max(Field(data, "rtt"), 0), Max(Field(data, "jitter"), 0),
          Max(Field(data, "packet_loss"), 0), 10 * Unit, 70 * Unit, "post", n)

\* the except branch: {"error": str(e)}, 500
RT_Error(p) == [req |-> p, code |-> 500, error |-> TRUE, queued_len |-> 0]

\* the handler on the body data up to telemetry_data.append(...); a body
\* that is rejected goes to the except branch
receive_telemetry(p, data) ==
    /\ pcP[p] = "idle"
    /\ posts < MaxPosts
    /\ posts' = posts + 1
    /\ IF Coercible(data)
       THEN /\ telemetry_data' =
                  list_append(telemetry_data, TelemetryPoint(data, appended + 1))
            /\ appended' = appended + 1
            /\ pcP' = [pcP EXCEPT ![p] = "appended"]
            /\ rtLen' = IF rtLen[p] = NoValue THEN rtLen
                         ELSE [rtLen EXCEPT ![p] = Len(telemetry_data) + 1]
            /\ UNCHANGED rtResp
       ELSE /\ rtResp' = RT_Error(p)
            /\ UNCHANGED <<telemetry_data, appended, pcP, rtLen>>
    /\ UNCHANGED <<cfg, pcC, sims, served, status_trace, lastResp, call, apiResp>>

\* a POST /telemetry with a JSON object as its body
RT_Append(p) == \E data \in Payloads : receive_telemetry(p, data)

\* a POST /telemetry with any body
RT_AppendAny(p) == \E data \in Bodies : receive_telemetry(p, data)

\* return jsonify({... "queued_len": len(telemetry_data)}), 200
RT_Respond(p) ==
    /\ pcP[p] = "appended"
    /\ rtResp' = [req |-> p, code |-> 200, error |-> FALSE,
                  queued_len |-> Len(telemetry_data)]
    /\ pcP' = [pcP EXCEPT ![p] = "idle"]
    /\ rtLen' = IF rtLen[p] = NoValue THEN rtLen ELSE [rtLen EXCEPT ![p] = 0]
    /\ UNCHANGED <<telemetry_data, cfg, pcC, posts, sims, hist, lastResp, call, apiResp>>

\* ================================================= GET /telemetry_local
\* if len(telemetry_data) > 0:
TL_Begin(c) ==
    /\ pcC[c] = "idle"
    /\ pcC' = [pcC EXCEPT ![c] = IF Len(telemetry_data) > 0 THEN "pop" ELSE "measure"]
    /\ UNCHANGED <<telemetry_data, cfg, pcP, posts, sims, hist, lastResp, rtResp, rtLen, call, apiResp>>

\* sim = telemetry_data.pop(0) and the rest of the queued branch, pred being
\* what the predictors return; pop(0) on an empty list raises IndexError,
\* which the except branch answers
telemetry_local_queued(c, pred) ==
    /\ pcC[c] = "pop"
    /\ pcC' = [pcC EXCEPT ![c] = "idle"]
    /\ IF telemetry_data = <<>>
       THEN /\ lastResp' = ErrorResp(c)
            /\ UNCHANGED <<telemetry_data, served, status_trace>>
       ELSE LET sim == Pop0(telemetry_data).item
                resp == decide(c, "queue", sim, QueuedMeasured(sim), pred)
            IN  /\ telemetry_data' = Pop0(telemetry_data).rest
                /\ lastResp' = resp
                /\ served' = Append(served, sim.seq)
                /\ status_trace' = IF resp.code = 200
                                    THEN Trace(status_trace, resp.status)
                                    ELSE status_trace
    /\ UNCHANGED <<cfg, pcP, posts, sims, appended, rtResp, rtLen, call, apiResp>>

\* the queued branch of a request, whatever the predictors return
TL_Pop(c) == \E pred \in PredOutcomes : telemetry_local_queued(c, pred)

\* the live branch for given outcomes of the three probes: times of the
\* ping probes, bytes of the byte counters, sig of the signal probe
measure_live(c, times, bytes, sig) ==
    /\ pcC[c] = "measure"
    /\ pcC' = [pcC EXCEPT ![c] = "idle"]
    /\ \E pred \in PredOutcomes :
         lastResp' =
            decide(c, "live", [seq |-> 0, producer |-> "live"],
                   LiveMeasured(measure_ping_stats_simple(ping, times),
                                measure_bandwidth_simple(psutil, bytes), sig),
                   pred)
    /\ UNCHANGED <<telemetry_data, cfg, pcP, posts, sims, hist, rtResp, rtLen,
                   call, apiResp>>

\* the live branch: the three probes, then the same decision code; without
\* its library a probe is not made and has no outcome to choose
TL_Measure(c) ==
    \E times \in (IF ping THEN ProbeOutcomes ELSE {<<>>}),
       bytes \in (IF psutil THEN ByteDeltas ELSE {0}),
       sig \in SignalReadings :
        measure_live(c, times, bytes, sig)

\* ======================================================= demo simulators
\* POST /trigger_ddos_demo: Thread(target=simulate_ddos_points).start()
\* and return jsonify({"message": ...}), 200
TriggerDdos ==
    /\ Len(ddos_threads) < MaxTriggers
    /\ ddos_threads' = Append(ddos_threads, 0)
    /\ apiResp' = Confirmation("trigger_ddos_demo")
    /\ UNCHANGED <<telemetry_data, cfg, pcC, pcP, posts, ramp_threads, hist,
                   lastResp, rtResp, rtLen, call>>

\* for _ in range(n) that leaves out the last turn
InRangeShort(i, n) == i < n - 1

\* for i in range(n): TRUE iff the loop has a turn i
InRange(i, n) == i < n

\* one turn of the loop of simulate_ddos_points, for the draw d
simulate_ddos_points(t, d) ==
    /\ t \in 1..Len(ddos_threads)
    /\ InRange(ddos_threads[t], DdosPoints)
    /\ telemetry_data' = list_append(telemetry_data, DdosPoint(d, appended + 1))
    /\ appended' = appended + 1
    /\ ddos_threads' = [ddos_threads EXCEPT ![t] = @ + 1]
    /\ UNCHANGED <<cfg, pcC, pcP, posts, ramp_threads, served, status_trace,
                   lastResp, rtResp, rtLen, call, apiResp>>

\* one turn of the loop of simulate_ddos_points
SimulateDdosStep(t) == \E d \in Draws : simulate_ddos_points(t, d)

\* POST /trigger_ramp_attack: Thread(target=simulate_ramp_points).start()
TriggerRamp ==
    /\ Len(ramp_threads) < MaxTriggers
    /\ ramp_threads' = Append(ramp_threads, 0)
    /\ apiResp' = Confirmation("trigger_ramp_attack")
    /\ UNCHANGED <<telemetry_data, cfg, pcC, pcP, posts, ddos_threads, hist,
                   lastResp, rtResp, rtLen, call>>

\* one turn of the loop of simulate_ramp_points, i = ramp_threads[t], for
\* the draw d
simulate_ramp_points(t, d) ==
    /\ t \in 1..Len(ramp_threads)
    /\ InRange(ramp_threads[t], RampPoints)
    /\ telemetry_data' = list_append(telemetry_data,
                                     RampPoint(ramp_threads[t], d, appended + 1))
    /\ appended' = appended + 1
    /\ ramp_threads' = [ramp_threads EXCEPT ![t] = @ + 1]
    /\ UNCHANGED <<cfg, pcC, pcP, posts, ddos_threads, served, status_trace,
                   lastResp, rtResp, rtLen, call, apiResp>>

\* one turn of the loop of simulate_ramp_points
SimulateRampStep(t) == \E d \in Draws : simulate_ramp_points(t, d)

\* ===================================================== stateless routes
\* a telemetry_test that computes status and spike from its sample, the
\* sample latency handed to detect_spike as the jitter
telemetry_test_computed ==
    [NoApi EXCEPT !.endpoint = "telemetry_test", !.code = 200,
                  !.predicted_latency = 48 * Unit + 2300,
                  !.status = heuristic_status(50 * Unit, 5 * Unit, 1000, 50 * Unit),
                  !.action_type = "monitor",
                  !.action_strength = 3000,
                  !.solution = "No immediate action - continue monitoring.",
                  !.alternative_solutions = Take(Templates("monitor"), 4),
                  !.spike = detect_spike(NoValue, 50 * Unit),
                  !.ddos_suspected = FALSE]

\* GET /telemetry_test: the fixed sample and 200 (the sample's
\* collected_telemetry and timestamps are left out of the record)
telemetry_test ==
    [NoApi EXCEPT !.endpoint = "telemetry_test", !.code = 200,
                  !.predicted_latency = 48 * Unit + 2300,
                  !.status = "Normal",
                  !.action_type = "monitor",
                  !.action_strength = 3000,
                  !.solution = "No immediate action - continue monitoring.",
                  !.alternative_solutions = Take(Templates("monitor"), 4),
                  !.spike = FALSE,
                  !.ddos_suspected = FALSE]

\* data.get(key, 0.0) on the body of /predict or /suggest_mitigation
BodyField(data, key) ==
    IF data.kind # "object" THEN 0
    ELSE IF key = "signal_strength" /\ ~data.has_signal THEN 0
    ELSE data[key]

\* {"error": ...}, 500
ApiError(endpoint, body, text) ==
    [NoApi EXCEPT !.endpoint = endpoint, !.body = body, !.code = 500, !.error = text]

\* the rest of predict after a body was read and the four predictors ran
Predicted(body, pred) ==
    LET telemetry == [latency |-> pred.latency,
                      jitter |-> BodyField(body, "jitter"),
                      packet_loss |-> BodyField(body, "packet_loss"),
                      bandwidth |-> BodyField(body, "bandwidth"),
                      signal_strength |-> BodyField(body, "signal_strength")]
    IN  [NoApi EXCEPT !.endpoint = "predict", !.body = body, !.code = 200,
                      !.predicted_latency = pred.latency,
                      !.status = pred.status,
                      !.action_type = pred.action,
                      !.action_strength = pred.strength,
                      !.solution = pick_solution_variant(pred.action, pred.strength,
                                                         telemetry),
                      !.alternative_solutions = Take(Templates(pred.action), 3),
                      !.spike = detect_spike(pred.latency, telemetry.jitter),
                      !.ddos_suspected = detect_ddos_like(telemetry)]

\* predict reading the body before it looks at models
predict_body_first(body, pred) ==
    IF ~(body.kind = "object" /\ body.valid) THEN ApiError("predict", body, "exception")
    ELSE IF ~models THEN ApiError("predict", body, "Model not loaded on server")
    ELSE IF ~pred.ok THEN ApiError("predict", body, "exception")
    ELSE Predicted(body, pred)

\* POST /predict: what it answers to the body, pred being what the four
\* predictors return (ok = FALSE: one of them raises).  get_json(force=True)
\* raises on bytes that are no JSON, data.get fails on every body that is no
\* object, float() on a field that is no number: all end in the except
\* branch with str(e) as the error.
predict(body, pred) ==
    IF ~models THEN ApiError("predict", body, "Model not loaded on server")
    ELSE IF ~(body.kind = "object" /\ body.valid) \/ ~pred.ok
         THEN ApiError("predict", body, "exception")
    ELSE Predicted(body, pred)

\* the suggestions without the test that signal_strength is not zero
suggestions_signal_zero(jitter, packet_loss, bandwidth, signal_strength) ==
    LET found ==
            (IF packet_loss > 5 * Unit
             THEN <<"Check cables and limit heavy traffic on the local LAN.">>
             ELSE <<>>)
            \o (IF jitter > 20 * Unit
                THEN <<"Enable QoS and prioritize latency-sensitive traffic.">>
                ELSE <<>>)
            \o (IF bandwidth < 5 * Unit
                THEN <<"Reduce background transfers and lower streaming quality.">>
                ELSE <<>>)
            \o (IF signal_strength < 30 * Unit
                THEN <<"Move device closer to Wi-Fi access point or use wired connection.">>
                ELSE <<>>)
    IN  IF found = <<>> THEN <<"No urgent actions. Continue monitoring.">> ELSE found

\* the suggestions list of suggest_mitigation for the four coerced fields
suggestions_for(jitter, packet_loss, bandwidth, signal_strength) ==
    LET found ==
            (IF packet_loss > 5 * Unit
             THEN <<"Check cables and limit heavy traffic on the local LAN.">>
             ELSE <<>>)
            \o (IF jitter > 20 * Unit
                THEN <<"Enable QoS and prioritize latency-sensitive traffic.">>
                ELSE <<>>)
            \o (IF bandwidth < 5 * Unit
                THEN <<"Reduce background transfers and lower streaming quality.">>
                ELSE <<>>)
            \o (IF signal_strength # 0 /\ signal_strength < 30 * Unit
                THEN <<"Move device closer to Wi-Fi access point or use wired connection.">>
                ELSE <<>>)
    IN  IF found = <<>> THEN <<"No urgent actions. Continue monitoring.">> ELSE found

\* POST /suggest_mitigation: get_json(silent=True) or {} turns bytes that
\* are no JSON and falsy values into {}; data.get fails on any other body
\* that is no object, float() on a field that is no number
suggest_mitigation(body) ==
    IF body.kind = "nonobject" \/ (body.kind = "object" /\ ~body.valid)
    THEN ApiError("suggest_mitigation", body, "exception")
    ELSE [NoApi EXCEPT !.endpoint = "suggest_mitigation", !.body = body,
                       !.code = 200,
                       !.suggestions =
                           suggestions_for(BodyField(body, "jitter"),
                                           BodyField(body, "packet_loss"),
                                           BodyField(body, "bandwidth"),
                                           BodyField(body, "signal_strength"))]

\* bodies explored: objects with each field at and next to its threshold
\* (signal_strength also missing, and zero), an object with a field that is
\* no number, and the bodies that are no object
ApiBodies ==
    [kind : {"object"}, jitter : {20 * Unit, 25 * Unit},
     packet_loss : {5 * Unit, 6 * Unit}, bandwidth : {4 * Unit, 5 * Unit},
     has_signal : {TRUE}, signal_strength : {0, 20 * Unit, 30 * Unit},
     valid : {TRUE}]
    \cup {[kind |-> "object", jitter |-> 25 * Unit, packet_loss |-> 6 * Unit,
           bandwidth |-> 4 * Unit, has_signal |-> FALSE, signal_strength |-> 0,
           valid |-> v] : v \in BOOLEAN}
    \cup {[NoBody EXCEPT !.kind = k] : k \in {"falsy", "nonobject", "notjson"}}

\* bodies of POST /predict explored
PredictBodies ==
    {b \in ApiBodies : b.kind # "object" \/ ~b.has_signal \/
                        (b.jitter = 25 * Unit /\ b.packet_loss = 6 * Unit
                         /\ b.signal_strength = 20 * Unit)}

TelemetryTest ==
    /\ apiResp' = telemetry_test
    /\ UNCHANGED <<telemetry_data, cfg, pcC, pcP, posts, sims, hist, lastResp,
                   rtResp, rtLen, call>>

Predict ==
    /\ \E body \in PredictBodies, pred \in Predictions :
         apiResp' = predict(body, pred)
    /\ UNCHANGED <<telemetry_data, cfg, pcC, pcP, posts, sims, hist, lastResp,
                   rtResp, rtLen, call>>

SuggestMitigation ==
    /\ \E body \in ApiBodies : apiResp' = suggest_mitigation(body)
    /\ UNCHANGED <<telemetry_data, cfg, pcC, pcP, posts, sims, hist, lastResp,
                   rtResp, rtLen, call>>

\* a server started with or without the model pickles
InitApi ==
    /\ telemetry_data = <<>>
    /\ ping = FALSE /\ psutil = FALSE
    /\ models \in BOOLEAN
    /\ hashseed = 0
    /\ pcC = [c \in Consumers |-> "idle"]
    /\ pcP = [p \in Posters |-> "idle"]
    /\ posts = 0
    /\ ddos_threads = <<>> /\ ramp_threads = <<>>
    /\ appended = 0 /\ served = <<>> /\ status_trace = <<>>
    /\ lastResp = NoResp /\ rtResp = NoPost
    /\ rtLen = [p \in Posters |-> NoValue]
    /\ call = NoCall
    /\ apiResp = NoApi

\* ========================================================= direct calls
\* arguments explored: each threshold, and the next value above or below it
LatGrid == {NoValue, 100 * Unit, 100 * Unit + 10, 200 * Unit, 200 * Unit + 10,
            250 * Unit, 250 * Unit + 10, 800 * Unit, 800 * Unit + 10}
JitGrid == {15 * Unit, 15 * Unit + 10, 20 * Unit, 20 * Unit + 10,
            40 * Unit, 40 * Unit + 10}
LossGrid == {3 * Unit, 3 * Unit + 10, 10 * Unit, 10 * Unit + 10}
BwGrid == {3 * Unit - 10, 3 * Unit, 8 * Unit - 10, 8 * Unit}

InitFn ==
    /\ telemetry_data = <<>>
    /\ ping = FALSE /\ psutil = FALSE /\ models = FALSE
    /\ hashseed = 0
    /\ pcC = [c \in Consumers |-> "idle"]
    /\ pcP = [p \in Posters |-> "idle"]
    /\ posts = 0
    /\ ddos_threads = <<>> /\ ramp_threads = <<>>
    /\ appended = 0 /\ served = <<>> /\ status_trace = <<>>
    /\ lastResp = NoResp /\ rtResp = NoPost
    /\ rtLen = [p \in Posters |-> NoValue]
    /\ apiResp = NoApi
    /\ call \in [fn : {"none"}, lat : LatGrid, jit : JitGrid, pkt_loss : LossGrid,
                 bw : BwGrid, out : {"none"}, flag : {FALSE},
                 action_key : {"none"}, strength : {0}, out2 : {"none"},
                 again : {FALSE}, ops : {0}, ops2 : {0}]

Call_heuristic_status ==
    /\ call.fn = "none"
    /\ call' = [call EXCEPT !.fn = "heuristic_status",
                            !.out = heuristic_status(call.lat, call.jit,
                                                     call.pkt_loss, call.bw)]
    /\ UNCHANGED <<telemetry_data, cfg, pcC, pcP, posts, sims, hist, lastResp, rtResp, rtLen,
                   apiResp>>

Call_detect_spike ==
    /\ call.fn = "none"
    /\ call' = [call EXCEPT !.fn = "detect_spike",
                            !.flag = detect_spike(call.lat, call.jit)]
    /\ UNCHANGED <<telemetry_data, cfg, pcC, pcP, posts, sims, hist, lastResp, rtResp, rtLen,
                   apiResp>>

\* dictionaries the queued branch of telemetry_local is applied to: each of
\* latency, jitter, packet_loss, bandwidth is there with one of four values
\* or missing (NoValue).  The three producers of this program set all four
\* keys; the sim.get(key, default) of the branch are written for
\* dictionaries that do not.
PartialGrid == {NoValue, 0, 5 * Unit, 90 * Unit, 500 * Unit}
PartialPoint(lat, jit, pl, bw) ==
    LET full == Point(lat, jit, pl, bw, 70 * Unit, "direct", 0)
        keys == {"signal", "producer", "seq"}
                \cup {k \in {"latency", "jitter", "packet_loss", "bandwidth"} :
                         full[k] # NoValue}
    IN  [k \in keys |-> full[k]]
PartialPoints ==
    {PartialPoint(lat, jit, pl, bw) :
        lat \in PartialGrid, jit \in PartialGrid, pl \in PartialGrid,
        bw \in PartialGrid}

\* telemetry_measured and the decision of the queued branch in heuristic
\* mode for the dictionary sim: lat, jit, pkt_loss, bw are the measured
\* fields, out the status, flag the spike
Call_telemetry_measured(sim) ==
    /\ call.fn = "none"
    /\ ~models
    /\ LET measured == QueuedMeasured(sim)
           resp == HeuristicResponse(1, "queue", sim, measured)
       IN  call' = [call EXCEPT !.fn = "telemetry_measured",
                                !.lat = measured.latency_measured,
                                !.jit = measured.jitter_measured,
                                !.pkt_loss = measured.packet_loss,
                                !.bw = measured.bandwidth,
                                !.out = resp.status,
                                !.flag = resp.spike]
    /\ UNCHANGED <<telemetry_data, cfg, pcC, pcP, posts, sims, hist, lastResp, rtResp, rtLen,
                   apiResp>>

\* arguments of pick_solution_variant explored: action types with pools of
\* five, two and one entries and one that is no key of SOLUTION_TEMPLATES
ActionKeys == {"switch_network", "monitor", "default", "reboot"}
Strengths == {0, 9000}

InitSel ==
    /\ telemetry_data = <<>>
    /\ ping = FALSE /\ psutil = FALSE /\ models = FALSE
    /\ hashseed \in HashSeeds
    /\ pcC = [c \in Consumers |-> "idle"]
    /\ pcP = [p \in Posters |-> "idle"]
    /\ posts = 0
    /\ ddos_threads = <<>> /\ ramp_threads = <<>>
    /\ appended = 0 /\ served = <<>> /\ status_trace = <<>>
    /\ lastResp = NoResp /\ rtResp = NoPost
    /\ rtLen = [p \in Posters |-> NoValue]
    /\ apiResp = NoApi
    /\ call \in [fn : {"none"}, lat : {0}, jit : {0, 25 * Unit},
                 pkt_loss : {6 * Unit}, bw : {0}, out : {"none"}, flag : {FALSE},
                 action_key : ActionKeys, strength : Strengths, out2 : {"none"},
                 again : {FALSE}, ops : {0}, ops2 : {0}]

Call_pick_solution_variant ==
    /\ call.fn = "none"
    /\ call' = [call EXCEPT
                  !.fn = "pick_solution_variant",
                  !.out = pick_solution_variant(call.action_key, call.strength,
                              [jitter |-> call.jit, packet_loss |-> call.pkt_loss]),
                  !.ops = appended]
    /\ UNCHANGED <<telemetry_data, cfg, pcC, pcP, posts, sims, hist, lastResp,
                   rtResp, rtLen, apiResp>>

\* the same call once more, later in the same process
Call_pick_solution_again ==
    /\ call.fn = "pick_solution_variant"
    /\ ~call.again
    /\ call' = [call EXCEPT
                  !.again = TRUE,
                  !.out2 = pick_solution_variant(call.action_key, call.strength,
                              [jitter |-> call.jit, packet_loss |-> call.pkt_loss]),
                  !.ops2 = appended]
    /\ UNCHANGED <<telemetry_data, cfg, pcC, pcP, posts, sims, hist, lastResp,
                   rtResp, rtLen, apiResp>>

\* ======================================================= specifications
Post == \E p \in Posters : RT_Append(p) \/ RT_Respond(p)
Local == \E c \in Consumers : TL_Begin(c) \/ TL_Pop(c) \/ TL_Measure(c)
Burst == TriggerDdos \/ \E t \in 1..MaxTriggers : SimulateDdosStep(t)
Ramp == TriggerRamp \/ \E t \in 1..MaxTriggers : SimulateRampStep(t)

\* pushed telemetry and concurrent GET /telemetry_local requests
Next == Post \/ Local
Spec == InitBare /\ [][Next]_vars

\* one client polling GET /telemetry_local, each request after the last
Poll == TL_Begin(1) \/ TL_Pop(1) \/ TL_Measure(1)

\* the burst demo and the polling client
NextBurst == Burst \/ Poll
SpecBurst == InitBare /\ [][NextBurst]_vars

\* the ramp demo and the polling client
NextRamp == Ramp \/ Poll
SpecRamp == InitBare /\ [][NextRamp]_vars

\* pushed telemetry and the polling client, on any host
NextLive == Post \/ Poll
SpecLive == Init /\ [][NextLive]_vars

\* model-backed mode: the sender and one polling client
NextModel == Post \/ Poll
SpecModel == InitModel /\ [][NextModel]_vars

\* both demos and the polling client, every random draw at the low end of
\* its range.  Simulators run side by side; a further trigger is explored when every simulator
\* that is running has at most MaxOverlap turns left.
Late(threads, n) == \A t \in 1..Len(threads) : threads[t] >= n - MaxOverlap
\* every simulator thread that was started has left its loop
AllDone ==
    /\ \A t \in 1..Len(ddos_threads) : ~InRange(ddos_threads[t], DdosPoints)
    /\ \A t \in 1..Len(ramp_threads) : ~InRange(ramp_threads[t], RampPoints)
AllLate == Late(ddos_threads, DdosPoints) /\ Late(ramp_threads, RampPoints)
LateTrigger == AllLate /\ (TriggerDdos \/ TriggerRamp)
DemoStep ==
    \/ \E t \in 1..MaxTriggers : simulate_ddos_points(t, 0)
    \/ \E t \in 1..MaxTriggers : simulate_ramp_points(t, 0)
NextDemos == LateTrigger \/ DemoStep \/ Poll
SpecDemos == InitBare /\ [][NextDemos]_vars

\* three kinds of producers and then the client: the demos overlap as
\* above, the sender posts one and the same body while both simulators are
\* running, each with at most MaxOverlap turns left, and the client polls
\* when the simulators have finished
SamePayload ==
    [kind |-> "object", rtt |-> 50 * Unit, jitter |-> 5 * Unit,
     packet_loss |-> Unit, valid |-> TRUE]
BothStarted == ddos_threads # <<>> /\ ramp_threads # <<>>
MixRequest ==
    \/ AllLate /\ (TriggerDdos \/ TriggerRamp)
    \/ /\ AllLate /\ BothStarted /\ ~AllDone
       /\ \E p \in Posters : receive_telemetry(p, SamePayload)
    \/ AllDone /\ BothStarted /\ TL_Begin(1)
NextMix ==
    \/ MixRequest
    \/ DemoStep
    \/ \E p \in Posters : RT_Respond(p)
    \/ TL_Pop(1) \/ TL_Measure(1)
SpecMix == InitBare /\ [][NextMix]_vars

\* the same, every simulator thread scheduled again and again
FairSpecDemos ==
    /\ SpecDemos
    /\ \A t \in 1..MaxTriggers :
         /\ WF_vars(simulate_ddos_points(t, 0))
         /\ WF_vars(simulate_ramp_points(t, 0))

\* the burst demo, its simulator thread scheduled again and again
FairSpecBurst == SpecBurst /\ WF_vars(\E t \in 1..MaxTriggers : SimulateDdosStep(t))

\* pushed telemetry with any body and the polling client, the history
\* rtLen switched on
PostAny == \E p \in Posters : RT_AppendAny(p) \/ RT_Respond(p)
NextPost == PostAny \/ Poll
SpecPost == InitPost /\ [][NextPost]_vars

\* pushed telemetry and the stateless routes, with and without models
NextApi == Post \/ TelemetryTest \/ Predict \/ SuggestMitigation
SpecApi == InitApi /\ [][NextApi]_vars

\* the solution selector called twice, points pushed before, between and
\* after the calls
NextSel == Post \/ Call_pick_solution_variant \/ Call_pick_solution_again
SpecSel == InitSel /\ [][NextSel]_vars

\* the decision helpers called directly
\* the queued branch applied to a dictionary some of whose keys are missing
NextDefaults == \E sim \in PartialPoints : Call_telemetry_measured(sim)
SpecDefaults == InitBare /\ [][NextDefaults]_vars

NextFn == Call_heuristic_status \/ Call_detect_spike
SpecFn == InitFn /\ [][NextFn]_vars

\* =============================================================== claims
Seqs(q) == [i \in 1..Len(q) |-> q[i].seq]
tm == lastResp.collected_telemetry
Answered == lastResp.code # 0
FromQueue == lastResp.code = 200 /\ lastResp.source = "queue"

\* C1 - Queue FIFO: the points are served in the order they were appended:
\* the n-th point served is the n-th point appended, and the queue holds the
\* points not yet served in the order of their appends.
C1_QueueFIFO ==
    /\ \A i \in 1..Len(served) : served[i] = i
    /\ \A i \in 1..Len(telemetry_data) : telemetry_data[i].seq = Len(served) + i
    /\ FromQueue => lastResp.seq = served[Len(served)]

\* A then B were queued together (the second POST answered queued_len 2) and
\* two requests have served them
C1_Witness ==
    /\ rtResp.queued_len = 2
    /\ Len(served) = 2
    /\ FromQueue /\ lastResp.seq = 2

\* C2 - source priority: a request that found the queue non-empty answers
\* from the head point, the queue shrinks by exactly that point and nothing
\* is measured; a request that found it empty answers from a live
\* measurement and leaves the queue as it is.
C2_SourcePriority ==
    [][\A c \in Consumers :
         /\ (pcC[c] = "pop" /\ pcC'[c] = "idle") =>
               /\ lastResp'.req = c
               /\ lastResp'.code = 200
               /\ lastResp'.source = "queue"
               /\ telemetry_data # <<>>
               /\ lastResp'.seq = Head(telemetry_data).seq
               /\ telemetry_data' = Tail(telemetry_data)
         /\ (pcC[c] = "measure" /\ pcC'[c] = "idle") =>
               /\ lastResp'.req = c
               /\ lastResp'.code = 200
               /\ lastResp'.source = "live"
               /\ telemetry_data' = telemetry_data]_vars

\* C3 - under any interleaving of concurrent requests every request ends
\* with a queued point or a live measurement, never with the error of a pop
\* from an empty queue.
C3_NoPopError ==
    Answered => (lastResp.code = 200 /\ lastResp.source \in {"queue", "live"})

C5_StatusTable ==
    (call.fn = "heuristic_status" /\ call.lat # NoValue) =>
        LET crit == call.pkt_loss > 10 * Unit \/ call.lat > 800 * Unit
            cong == call.pkt_loss > 3 * Unit \/ call.lat > 250 * Unit
                    \/ call.jit > 40 * Unit \/ call.bw < 3 * Unit
            degr == call.lat > 100 * Unit \/ call.jit > 15 * Unit \/ call.bw < 8 * Unit
        IN  /\ call.out \in {"Critical", "Network Congestion", "Degraded", "Normal"}
            /\ (call.out = "Critical") <=> crit
            /\ (call.out = "Network Congestion") <=> (~crit /\ cong)
            /\ (call.out = "Degraded") <=> (~crit /\ ~cong /\ degr)
            /\ (call.out = "Normal") <=> (~crit /\ ~cong /\ ~degr)

\* loss exactly 10 and latency exactly 800 were classified, and not Critical
C5_Witness ==
    /\ call.fn = "heuristic_status"
    /\ call.pkt_loss = 10 * Unit /\ call.lat = 800 * Unit
    /\ call.out = "Network Congestion"

\* C6 - the ddos_suspected flag of a GET /telemetry_local response is true
\* iff (packet_loss > 5 and jitter > 20) or (bandwidth < 1 and
\* packet_loss > 2) on that response's jitter, packet_loss and bandwidth.
C6_DdosFlag ==
    lastResp.code = 200 =>
        (lastResp.ddos_suspected <=>
            \/ (tm.packet_loss > 5 * Unit /\ tm.jitter_measured > 20 * Unit)
            \/ (tm.bandwidth < 1 * Unit /\ tm.packet_loss > 2 * Unit))

\* C7 - the spike flag is true iff latency > 200 or jitter > 20 (strict):
\* the spike field of every response, queued or live, equals this predicate
\* on the response's latency_measured and jitter_measured, whatever the
\* status is.
C7_SpikeFlag ==
    lastResp.code = 200 =>
        (lastResp.spike <=>
            (tm.latency_measured > 200 * Unit \/ tm.jitter_measured > 20 * Unit))

\* a queued point with latency 200 and jitter 20 exactly was served: no
\* spike, though its status is not Normal
C7_Witness ==
    /\ FromQueue
    /\ tm.latency_measured = 200 * Unit /\ tm.jitter_measured = 20 * Unit
    /\ ~lastResp.spike
    /\ lastResp.status # "Normal"

\* C8 - burst demo: a triggered simulator eventually finishes; once every
\* started simulator has finished and there is no other producer, each has
\* appended exactly 10 points (10 after one trigger), every point lies
\* within the ranges of its draws, and the points consumed and those still
\* queued are exactly the appended ones, in order.
InBurstRange(lat, jit, pl, bw) ==
    /\ 600 * Unit <= lat /\ lat <= 1200 * Unit
    /\ 200 * Unit <= jit /\ jit <= 600 * Unit
    /\ 10 * Unit <= pl /\ pl <= 30 * Unit
    /\ Unit \div 20 <= bw /\ bw <= Unit

BurstDone ==
    /\ ddos_threads # <<>>
    /\ \A t \in 1..Len(ddos_threads) : ddos_threads[t] = DdosPoints

C8_BurstDemo ==
    /\ [](BurstDone =>
            /\ appended = DdosPoints * Len(ddos_threads)
            /\ served \o Seqs(telemetry_data) = [i \in 1..appended |-> i]
            /\ \A i \in 1..Len(telemetry_data) :
                 LET r == telemetry_data[i]
                 IN  /\ r.producer = "ddos"
                     /\ InBurstRange(r.latency, r.jitter, r.packet_loss, r.bandwidth)
                     /\ 30 * Unit <= r.signal /\ r.signal <= 80 * Unit)
    /\ [](FromQueue =>
            /\ lastResp.producer = "ddos"
            /\ InBurstRange(tm.latency_measured, tm.jitter_measured,
                            tm.packet_loss, tm.bandwidth))
    /\ \A t \in 1..MaxTriggers :
         (Len(ddos_threads) >= t)
            ~> (Len(ddos_threads) >= t /\ ddos_threads[t] = DdosPoints)

\* the simulator has finished and the polling client has consumed all ten
C8_Witness ==
    /\ ddos_threads = <<DdosPoints>>
    /\ Len(served) = DdosPoints
    /\ FromQueue /\ lastResp.seq = DdosPoints

\* C9 - every point of the burst simulator is served with status Critical
\* and ddos_suspected true.
C9_BurstFlags ==
    (FromQueue /\ lastResp.producer = "ddos") =>
        (lastResp.status = "Critical" /\ lastResp.ddos_suspected)

\* C10 - the 12 ramp points, served in order, run through Normal, Degraded,
\* Network Congestion, Critical: each occurs, in that order, and severity
\* never decreases.
C10_RampProgression ==
    (ramp_threads = <<RampPoints>> /\ Len(served) = RampPoints) =>
        status_trace = <<"Normal", "Degraded", "Network Congestion", "Critical">>

\* C11 - ramp content: while one ramp simulator is the only producer, the
\* points it has appended are those of steps 0, 1, 2, ... in step order, 12
\* when it has finished; the point of step i has latency 100 + 50 i,
\* jitter 20 + 15 i, packet_loss min(2 i, 30), bandwidth max(10 - 0.8 i, 0.1)
\* and a signal within [30, 80]; along the steps latency, jitter and
\* packet_loss never decrease and bandwidth never increases.
IsRampStep(r, i) ==
    /\ r.latency = (100 + 50 * i) * Unit
    /\ r.jitter = (20 + 15 * i) * Unit
    /\ r.packet_loss = (IF 2 * i <= 30 THEN 2 * i ELSE 30) * Unit
    /\ r.bandwidth = (IF 100 - 8 * i >= 1 THEN 100 - 8 * i ELSE 1) * (Unit \div 10)
    /\ 30 * Unit <= r.signal /\ r.signal <= 80 * Unit

C11_RampContent ==
    Len(ramp_threads) = 1 =>
        /\ appended = ramp_threads[1]
        /\ appended <= RampPoints
        /\ served \o Seqs(telemetry_data) = [n \in 1..appended |-> n]
        /\ \A k \in 1..Len(telemetry_data) :
             /\ telemetry_data[k].producer = "ramp"
             /\ IsRampStep(telemetry_data[k], telemetry_data[k].seq - 1)
        /\ \A k \in 1..(Len(telemetry_data) - 1) :
             LET a == telemetry_data[k]
                 b == telemetry_data[k + 1]
             IN  /\ a.latency <= b.latency
                 /\ a.jitter <= b.jitter
                 /\ a.packet_loss <= b.packet_loss
                 /\ a.bandwidth >= b.bandwidth
        /\ FromQueue =>
             IsRampStep([latency |-> tm.latency_measured, jitter |-> tm.jitter_measured,
                         packet_loss |-> tm.packet_loss, bandwidth |-> tm.bandwidth,
                         signal |-> tm.signal_strength], lastResp.seq - 1)

\* the simulator has finished with all twelve points still queued, the last
\* one being that of step 11
C11_Witness ==
    /\ ramp_threads = <<RampPoints>>
    /\ Len(telemetry_data) = RampPoints
    /\ telemetry_data[RampPoints].latency = 650 * Unit
    /\ telemetry_data[RampPoints].bandwidth = (12 * Unit) \div 10

\* C12 - a successful POST /telemetry appends exactly one point at the tail
\* of the queue, with latency max(rtt, 0), bandwidth 10.0 and signal 70,
\* leaves the points already queued as they are and in their order, and
\* neither predicts nor pops: no GET /telemetry_local response or served
\* point comes of it.
NoPredictionNoPop ==
    /\ lastResp' = lastResp
    /\ served' = served
    /\ status_trace' = status_trace

C12_PostAppendsOne ==
    [][\A p \in Posters :
         /\ \A data \in Bodies :
              (receive_telemetry(p, data) /\ pcP'[p] = "appended") =>
                 LET rtt == IF data.kind = "object" THEN data.rtt ELSE 0
                     n == Len(telemetry_data)
                 IN  /\ Len(telemetry_data') = n + 1
                     /\ SubSeq(telemetry_data', 1, n) = telemetry_data
                     /\ telemetry_data'[n + 1].latency = (IF rtt > 0 THEN rtt ELSE 0)
                     /\ telemetry_data'[n + 1].bandwidth = 10 * Unit
                     /\ telemetry_data'[n + 1].signal = 70 * Unit
                     /\ NoPredictionNoPop
         /\ (pcP[p] = "appended" /\ pcP'[p] = "idle") =>
              /\ rtResp'.code = 200
              /\ telemetry_data' = telemetry_data
              /\ NoPredictionNoPop]_vars

\* a second point was posted behind a queued one, with a negative rtt, and
\* the request was answered
C12_Witness ==
    /\ Len(telemetry_data) = 2
    /\ telemetry_data[1].latency > 0
    /\ telemetry_data[2].producer = "post" /\ telemetry_data[2].latency = 0
    /\ rtResp.code = 200 /\ posts = 2

\* C13 - the queued_len a POST /telemetry answers with is the queue length
\* right after its own append, that is the length before it plus one, also
\* when other producers and GET /telemetry_local requests run beside it.
C13_QueuedLen ==
    [][\A p \in Posters :
         (pcP[p] = "appended" /\ pcP'[p] = "idle") =>
            /\ rtResp'.req = p
            /\ rtResp'.code = 200
            /\ rtResp'.queued_len = rtLen[p]]_vars

\* C14 - with no model loaded POST /predict answers 500 with the error
\* "Model not loaded on server" whatever the body is, also a body it could
\* not have read, computes nothing in place of the predictors and leaves
\* the queue as it is.
C14_PredictNoModel ==
    [][(~models /\ apiResp' # apiResp /\ apiResp'.endpoint = "predict") =>
          /\ apiResp'.code = 500
          /\ apiResp'.error = "Model not loaded on server"
          /\ apiResp'.status = "none" /\ apiResp'.action_type = "none"
          /\ apiResp'.solution = "none"
          /\ apiResp'.predicted_latency = NoValue
          /\ telemetry_data' = telemetry_data
          /\ appended' = appended /\ served' = served]_vars

\* without models, a /predict whose body is no JSON was answered while a
\* point was queued
C14_Witness ==
    /\ ~models
    /\ apiResp.endpoint = "predict" /\ apiResp.code = 500
    /\ apiResp.body.kind = "notjson"
    /\ telemetry_data # <<>>

\* C15 - GET /telemetry_test answers 200 with status Normal and spike false
\* in every state, with and without models, and leaves the queue as it is.
C15_TelemetryTest ==
    [][(apiResp' # apiResp /\ apiResp'.endpoint = "telemetry_test") =>
          /\ apiResp'.code = 200
          /\ apiResp'.status = "Normal"
          /\ ~apiResp'.spike
          /\ telemetry_data' = telemetry_data
          /\ appended' = appended /\ served' = served]_vars

\* with models loaded and a point queued, /telemetry_test was answered
C15_Witness ==
    /\ models
    /\ telemetry_data # <<>>
    /\ apiResp.endpoint = "telemetry_test" /\ apiResp.code = 200

SuggestBody == apiResp.body

SuggestField(key) ==
    IF SuggestBody.kind # "object" THEN 0
    ELSE IF key = "signal_strength" /\ ~SuggestBody.has_signal THEN 0
    ELSE SuggestBody[key]

SuggestionsAsSpecified ==
    LET s == apiResp.suggestions
        texts == <<"Check cables and limit heavy traffic on the local LAN.",
                   "Enable QoS and prioritize latency-sensitive traffic.",
                   "Reduce background transfers and lower streaming quality.",
                   "Move device closer to Wi-Fi access point or use wired connection.",
                   "No urgent actions. Continue monitoring.">>
        holds == <<SuggestField("packet_loss") > 5 * Unit,
                   SuggestField("jitter") > 20 * Unit,
                   SuggestField("bandwidth") < 5 * Unit,
                   SuggestBody.kind = "object" /\ SuggestBody.has_signal
                       /\ SuggestField("signal_strength") # 0
                       /\ SuggestField("signal_strength") < 30 * Unit>>
        none == ~holds[1] /\ ~holds[2] /\ ~holds[3] /\ ~holds[4]
        Has(t) == \E i \in 1..Len(s) : s[i] = t
        Rank(t) == CHOOSE k \in 1..5 : texts[k] = t
    IN  /\ apiResp.code = 200
        /\ s # <<>>
        /\ \A i \in 1..Len(s) : \E k \in 1..5 : s[i] = texts[k]
        /\ \A k \in 1..4 : Has(texts[k]) <=> holds[k]
        /\ Has(texts[5]) <=> none
        /\ \A i, j \in 1..Len(s) : i < j => Rank(s[i]) < Rank(s[j])
        /\ (SuggestField("packet_loss") = 6 * Unit /\ SuggestField("jitter") = 25 * Unit
            /\ SuggestField("bandwidth") = 4 * Unit
            /\ SuggestField("signal_strength") = 20 * Unit)
              => s = SubSeq(texts, 1, 4)

\* C17 as stated: POST /suggest_mitigation always answers with a non-empty
\* suggestions list, made up as specified.
C17_SuggestAlways ==
    apiResp.endpoint = "suggest_mitigation" => SuggestionsAsSpecified

\* C17 amended: POST /suggest_mitigation answers 200 with a non-empty
\* suggestions list, made up as specified, to every body whose fields it
\* can read as numbers (a body that is no JSON or a falsy value counts as
\* the empty object); to a body with a field that is no number, or that is
\* any other value than an object, it answers 500 with an error and no
\* suggestions.
C17_Suggestions ==
    apiResp.endpoint = "suggest_mitigation" =>
        IF SuggestBody.kind = "nonobject"
           \/ (SuggestBody.kind = "object" /\ ~SuggestBody.valid)
        THEN /\ apiResp.code = 500
             /\ apiResp.error # "none"
             /\ apiResp.suggestions = <<>>
        ELSE SuggestionsAsSpecified

\* the body {packet_loss: 6, jitter: 25, bandwidth: 4, signal_strength: 20}
\* was answered with four suggestions
C17_Witness ==
    /\ apiResp.endpoint = "suggest_mitigation" /\ apiResp.code = 200
    /\ SuggestBody.kind = "object" /\ SuggestBody.has_signal
    /\ SuggestBody.packet_loss = 6 * Unit /\ SuggestBody.jitter = 25 * Unit
    /\ SuggestBody.bandwidth = 4 * Unit /\ SuggestBody.signal_strength = 20 * Unit
    /\ Len(apiResp.suggestions) = 4

\* C18 - without models every 200 response of GET /telemetry_local, from
\* the queue or from a live measurement, has action_type "default",
\* action_strength 0.5, predicted_latency equal to latency_measured, the
\* status heuristic_status gives for the collected telemetry, the single
\* default template as solution and the one-entry default list as
\* alternative_solutions.
C18_HeuristicDefaults ==
    (~models /\ lastResp.code = 200) =>
        LET default == "Investigate further: collect more telemetry and restart equipment if needed."
        IN  /\ lastResp.source \in {"queue", "live"}
            /\ lastResp.action_type = "default"
            /\ lastResp.action_strength = 5000
            /\ lastResp.predicted_latency = tm.latency_measured
            /\ lastResp.status = heuristic_status(tm.latency_measured, tm.jitter_measured,
                                                  tm.packet_loss, tm.bandwidth)
            /\ lastResp.solution = default
            /\ lastResp.alternative_solutions = <<default>>

\* a live measurement was answered after a queued point had been served
C18_Witness ==
    /\ ~models
    /\ lastResp.code = 200 /\ lastResp.source = "live"
    /\ Len(served) >= 1
    /\ lastResp.action_type = "default"

\* C19 - a POST /telemetry whose body cannot be coerced, because a field is
\* no number or because the body is no JSON object, is answered 500 with an
\* "error" key and leaves the queue as it is; the handler ends and is ready
\* for the next request.
C19_MalformedRejected ==
    [][\A p \in Posters : \A data \in Bodies :
         (receive_telemetry(p, data) /\ (data.kind # "object" \/ ~data.valid)) =>
            /\ rtResp'.req = p
            /\ rtResp'.code = 500
            /\ rtResp'.error
            /\ telemetry_data' = telemetry_data
            /\ appended' = appended
            /\ pcP'[p] = "idle"]_vars

\* C20 - a measurement that is not available is reported by sentinels:
\* when the queue was found empty and every ping probe fails, or there is
\* no ping library, GET /telemetry_local answers 200 with latency_measured
\* 999.0, jitter_measured 999.0 and packet_loss 100.0, with bandwidth 0.0
\* when there is no bandwidth library, and without models with status
\* Critical and spike true.
C20_Sentinels ==
    [][\A c \in Consumers :
         (pcC[c] = "measure" /\ pcC'[c] = "idle") =>
            \A times \in ProbeOutcomes, bytes \in ByteDeltas, sig \in SignalReadings :
               ((~ping \/ times = <<>>) /\ measure_live(c, times, bytes, sig)) =>
                  LET t == lastResp'.collected_telemetry
                  IN  /\ lastResp'.code = 200
                      /\ t.latency_measured = 999 * Unit
                      /\ t.jitter_measured = 999 * Unit
                      /\ t.packet_loss = 100 * Unit
                      /\ ~psutil => t.bandwidth = 0
                      /\ ~models => (lastResp'.status = "Critical" /\ lastResp'.spike)]_vars

\* on a host with the ping library but no bandwidth library a live
\* measurement whose probes all failed was answered
C20_Witness ==
    /\ ping /\ ~psutil
    /\ lastResp.code = 200 /\ lastResp.source = "live"
    /\ tm.packet_loss = 100 * Unit
    /\ tm.latency_measured = 999 * Unit
    /\ tm.bandwidth = 0

\* C21 - a trigger route answers with its confirmation at once, before its
\* simulator has appended anything; every simulator that was started
\* eventually appends all its records, 10 for a burst and 12 for a ramp,
\* whatever requests and further triggers come in between; when the
\* simulators of n burst and m ramp triggers have finished, exactly
\* 10n + 12m simulator records were appended.
C21_Triggers ==
    /\ [][/\ Len(ddos_threads') # Len(ddos_threads)
               => /\ ddos_threads' = Append(ddos_threads, 0)
                  /\ apiResp' = Confirmation("trigger_ddos_demo")
                  /\ telemetry_data' = telemetry_data /\ appended' = appended
          /\ Len(ramp_threads') # Len(ramp_threads)
               => /\ ramp_threads' = Append(ramp_threads, 0)
                  /\ apiResp' = Confirmation("trigger_ramp_attack")
                  /\ telemetry_data' = telemetry_data /\ appended' = appended]_vars
    /\ \A t \in 1..MaxTriggers :
         /\ (Len(ddos_threads) >= t)
               ~> (Len(ddos_threads) >= t /\ ddos_threads[t] = DdosPoints)
         /\ (Len(ramp_threads) >= t)
               ~> (Len(ramp_threads) >= t /\ ramp_threads[t] = RampPoints)
    /\ [](AllDone =>
            appended = DdosPoints * Len(ddos_threads)
                       + RampPoints * Len(ramp_threads))

\* a burst and then a ramp were triggered, the ramp while the burst was
\* running, and both simulators have finished
C21_Witness ==
    /\ ddos_threads = <<DdosPoints>> /\ ramp_threads = <<RampPoints>>
    /\ apiResp = Confirmation("trigger_ramp_attack")
    /\ appended = DdosPoints + RampPoints
    /\ \E i \in 1..Len(telemetry_data) :
         /\ telemetry_data[i].producer = "ddos"
         /\ \E j \in 1..(i - 1) : telemetry_data[j].producer = "ramp"

\* C24 - with several producers at work (two simulator threads and POST
\* /telemetry requests) the records of each producer are in the queue, and
\* are served, in the order in which that producer appended them; an append
\* adds its record behind the others and removes or overwrites none, and
\* every record appended is either served or still queued.  The order of a
\* producer's appends is that of the stamps seq; of a single ramp simulator
\* it is also that of its rising latencies.
C24_ProducerOrder ==
    /\ [](\A i \in 1..Len(telemetry_data) : \A j \in (i + 1)..Len(telemetry_data) :
            telemetry_data[i].producer = telemetry_data[j].producer
               => /\ telemetry_data[i].seq < telemetry_data[j].seq
                  /\ (telemetry_data[i].producer = "ramp"
                                               /\ Len(ramp_threads) = 1)
                       => telemetry_data[i].latency < telemetry_data[j].latency)
    /\ [](\A n \in 1..appended :
            \/ \E j \in 1..Len(served) : served[j] = n
            \/ \E i \in 1..Len(telemetry_data) : telemetry_data[i].seq = n)
    /\ [][Len(served') > Len(served)
            => /\ lastResp'.seq = Head(telemetry_data).seq
               /\ lastResp'.producer = Head(telemetry_data).producer
               /\ \A k \in 1..Len(telemetry_data') :
                    telemetry_data'[k].producer = lastResp'.producer
                       => lastResp'.seq < telemetry_data'[k].seq]_vars
    /\ [][appended' # appended
            => /\ Len(telemetry_data') = Len(telemetry_data) + 1
               /\ SubSeq(telemetry_data', 1, Len(telemetry_data)) = telemetry_data
               /\ telemetry_data'[Len(telemetry_data')].seq = appended']_vars

\* the queue holds a posted record between a ramp record before it and a
\* burst record behind it, and the client has been served a record
C24_Witness ==
    /\ served # <<>> /\ FromQueue
    /\ \E j \in 1..Len(telemetry_data) :
         /\ telemetry_data[j].producer = "post"
         /\ \E i \in 1..(j - 1) : telemetry_data[i].producer = "ramp"
         /\ \E k \in (j + 1)..Len(telemetry_data) :
              telemetry_data[k].producer = "ddos"

\* C22 - every record in the queue, whichever producer appended it, has
\* latency >= 0, jitter >= 0, packet_loss between 0 and 100 and
\* bandwidth >= 0.
C22_RecordRanges ==
    \A i \in 1..Len(telemetry_data) :
        LET r == telemetry_data[i]
        IN  /\ r.latency >= 0
            /\ r.jitter >= 0
            /\ 0 <= r.packet_loss /\ r.packet_loss <= 100 * Unit
            /\ r.bandwidth >= 0

\* C23 - the score from which GET /telemetry_local selects the solution of
\* a served record is the strength plus the record's measured jitter / 100
\* plus its packet loss / 10 (the strength is 0.5 in heuristic mode).
C23_ScoreUsesJitter ==
    FromQueue =>
        score(Unit \div 2, tm) =
            Unit \div 2 + tm.jitter_measured \div 100 + tm.packet_loss \div 10

\* C25 - in model-backed mode a predictor or encoder that raises while a
\* queued record is processed is answered with status 500 and an error body
\* and the client can go on asking; the record was taken off the queue
\* before, it is not put back and no later response returns it.
C25_PredictorRaises ==
    /\ [][\A c \in Consumers : \A pred \in Predictions :
            (telemetry_local_queued(c, pred) /\ ~pred.ok /\ telemetry_data # <<>>)
                => /\ lastResp'.code = 500 /\ lastResp'.source = "error"
                   /\ telemetry_data' = Tail(telemetry_data)
                   /\ served' = Append(served, Head(telemetry_data).seq)
                   /\ pcC'[c] = "idle"]_vars
    /\ [](\A i \in 1..Len(telemetry_data) : \A j \in 1..Len(served) :
            telemetry_data[i].seq # served[j])
    /\ [][(lastResp' # lastResp /\ lastResp'.code = 200
                                /\ lastResp'.source = "queue")
            => \A j \in 1..Len(served) : served[j] # lastResp'.seq]_vars

\* the first record was taken off the queue and answered with the error,
\* the second is still queued
C25_Witness ==
    /\ models
    /\ lastResp.code = 500 /\ lastResp.source = "error"
    /\ served = <<1>> /\ status_trace = <<>>
    /\ Len(telemetry_data) = 1 /\ telemetry_data[1].seq = 2

\* C26 - a queued record without latency is served with latency_measured
\* 999.0 and, in heuristic mode, with status Critical and spike true
\* whatever its other fields are; a missing jitter, packet_loss or bandwidth
\* is served as 0.0.
C26_QueuedDefaults ==
    [][\A sim \in PartialPoints :
         Call_telemetry_measured(sim) =>
            /\ "latency" \notin DOMAIN sim
                  => /\ call'.lat = 999 * Unit
                     /\ call'.out = "Critical"
                     /\ call'.flag
            /\ "jitter" \notin DOMAIN sim => call'.jit = 0
            /\ "packet_loss" \notin DOMAIN sim => call'.pkt_loss = 0
            /\ "bandwidth" \notin DOMAIN sim => call'.bw = 0]_vars

\* the branch has answered a dictionary without latency and without jitter
C26_Witness ==
    /\ call.fn = "telemetry_measured"
    /\ call.lat = 999 * Unit /\ call.jit = 0 /\ call.pkt_loss = 5 * Unit
    /\ call.out = "Critical" /\ call.flag

====
